---- MODULE Spec2Model ----
(***************************************************************************)
(* Model of helix-core/src/selection.rs: Range, Selection and              *)
(* split_on_matches.  Offsets are char offsets (usize).  primary_index and *)
(* the loop index of normalize are 0-based as in the source; TLA+          *)
(* sequences are 1-based, so ranges[k] of the source is ranges[k + 1].     *)
(***************************************************************************)
EXTENDS Integers, Sequences, FiniteSets, TLC

\* Largest document offset of the inputs drawn for the constructors.
MaxPos == 2
\* Largest number of ranges handed to Selection::new.
MaxLen == 3
\* Largest offset and number of ranges of the inputs of the runs that follow
\* the primary index through many merges.
DeepPos == 1
DeepLen == 5
\* Largest number of chars of a text handed to split_on_matches.
MaxText == 3
\* usize, modelled at 8 bits: the value 0 - 1 wraps to.
UsizeMax == 2^8 - 1

VARIABLES
    op,             \* the operation that produced the current state
    status,         \* "ok", or "panic" once an index or arithmetic check aborted
    ranges,         \* Selection.ranges
    primary_index,  \* Selection.primary_index (0-based)
    in_ranges,      \* the ranges handed to the operation (pure-function runs)
    in_primary,     \* the primary index handed to Selection::new
    groups,         \* per output range: the sorted positions merged into it
    located,        \* position of the claimed primary right after the sort
    text,           \* the text view handed to split_on_matches
    regex,          \* the pattern handed to split_on_matches
    matched,        \* char offsets of the text inside a match of the last split
    ret             \* value returned by a query (Range::overlaps)

vars == <<op, status, ranges, primary_index, in_ranges, in_primary, groups,
          located, text, regex, matched, ret>>

Min(x, y) == IF x < y THEN x ELSE y
Max(x, y) == IF x > y THEN x ELSE y

----------------------------------------------------------------------------
(* Range *)

Range(anchor, head) == [anchor |-> anchor, head |-> head]

Ranges(maxpos) == [anchor : 0..maxpos, head : 0..maxpos]

RangeSeqs(maxlen, maxpos) == UNION {[1..n -> Ranges(maxpos)] : n \in 1..maxlen}

Range_from(r) == Min(r.anchor, r.head)

Range_to(r) == Max(r.anchor, r.head)

Range_is_empty(r) == r.anchor = r.head

Range_overlaps(self, other) ==
    IF Range_is_empty(self)
    THEN Range_from(self) <= Range_to(other)
    ELSE Range_from(self) < Range_to(other)

----------------------------------------------------------------------------
(* Selection::new *)

Panic == [status |-> "panic", ranges |-> <<>>, primary_index |-> 0,
          groups |-> <<>>, located |-> 0]

\* Indices of idx with the least key.
LeastKey(keys, idx) == {i \in idx : \A j \in idx : keys[i] <= keys[j]}

\* The orders of the indices idx that are ascending in keys.
RECURSIVE SortedOrders(_, _)
SortedOrders(keys, idx) ==
    IF idx = {} THEN {<<>>}
    ELSE UNION {{<<i>> \o t : t \in SortedOrders(keys, idx \ {i})} :
                   i \in LeastKey(keys, idx)}

\* A faulty variant: the sort is left out.
sort_skipped(rs) == {rs}

\* ranges.sort_unstable_by_key(Range::from): the order of ranges with equal
\* keys is unspecified, so every key-sorted permutation is an outcome.
sort_unstable_by_key(rs) ==
    {[k \in DOMAIN rs |-> rs[order[k]]] :
        order \in SortedOrders([k \in DOMAIN rs |-> Range_from(rs[k])],
                               DOMAIN rs)}

\* ranges.iter().position(|&range| range == primary).unwrap()
position(rs, primary) ==
    (CHOOSE k \in 1..Len(rs) :
        /\ rs[k] = primary
        /\ \A j \in 1..(k - 1) : rs[j] # primary) - 1

\* A faulty variant: the merged range ends at prev.to().
merged_range_prev_to(range, prev) ==
    IF range.anchor > range.head
    THEN Range(Range_to(prev), Range_from(prev))
    ELSE Range(Range_from(prev), Range_to(prev))

\* The range written into prev when range is merged into it.
merged_range(range, prev) ==
    LET from == Range_from(prev)
        to == Max(Range_to(range), Range_to(prev))
    IN IF range.anchor > range.head
       THEN Range(to, from)
       ELSE Range(from, to)

\* The for loop of normalize from index i on, over the sorted ranges; at is
\* the position the claimed primary was found at.
RECURSIVE merge_pass(_, _, _, _, _, _)
merge_pass(sorted, i, result, pidx, grp, at) ==
    IF i = Len(sorted)
    THEN [status |-> "ok", ranges |-> result, primary_index |-> pidx,
          groups |-> grp, located |-> at]
    ELSE IF result # <<>> /\ Range_overlaps(sorted[i + 1], result[Len(result)])
         THEN merge_pass(sorted, i + 1,
                  [result EXCEPT
                      ![Len(result)] = merged_range(sorted[i + 1], @)],
                  IF i <= pidx THEN pidx - 1 ELSE pidx,
                  [grp EXCEPT ![Len(result)] = @ \cup {i}], at)
         ELSE merge_pass(sorted, i + 1, Append(result, sorted[i + 1]), pidx,
                  Append(grp, {i}), at)

\* The body of normalize after the sort.
normalize_sorted(sorted, primary) ==
    merge_pass(sorted, 0, <<>>, position(sorted, primary), <<>>,
               position(sorted, primary))

\* fn normalize: the set of outcomes (one per outcome of the sort).
normalize(rs, p) ==
    IF p >= Len(rs)
    THEN {Panic}
    ELSE {normalize_sorted(sorted, rs[p + 1]) :
             sorted \in sort_unstable_by_key(rs)}

\* A faulty variant: the fast path is taken for every input, so the ranges
\* are returned as given.
Selection_new_fast_path_only(rs, p) ==
    {[status |-> "ok", ranges |-> rs, primary_index |-> 0,
      groups |-> [k \in DOMAIN rs |-> {k - 1}], located |-> 0]}

Selection_new(rs, p) ==
    IF Len(rs) = 1
    THEN {[status |-> "ok", ranges |-> rs, primary_index |-> 0,
           groups |-> <<{0}>>, located |-> 0]}
    ELSE normalize(rs, p)

----------------------------------------------------------------------------
(* Text view and pattern matcher of split_on_matches *)

\* A char of the text is named by its class: a one-byte letter, a two-byte
\* letter, a one-byte whitespace char.
Letter == "x"
Wide == "xx"
Space == " "
Chars == {Letter, Wide, Space}

Texts == UNION {[1..n -> Chars] : n \in 1..MaxText}

\* The two patterns: a run of whitespace, a single whitespace char.
Patterns == {"\\s+", "\\s"}

len_utf8(c) == IF c = Wide THEN 2 ELSE 1

\* text.char_to_byte(k): the byte offset of char k.
RECURSIVE char_to_byte(_, _)
char_to_byte(txt, k) ==
    IF k = 0 THEN 0 ELSE char_to_byte(txt, k - 1) + len_utf8(txt[k])

\* text.byte_to_char(b): the char that byte b belongs to.
byte_to_char(txt, b) ==
    CHOOSE k \in 0..Len(txt) :
        /\ char_to_byte(txt, k) <= b
        /\ \A j \in (k + 1)..Len(txt) : char_to_byte(txt, j) > b

\* sel.fragment(&text): the chars from() .. to() inclusive.
Range_fragment(r, txt) == SubSeq(txt, Range_from(r) + 1, Range_to(r) + 1)

\* Last char index of the whitespace run of frag that starts at k.
RECURSIVE run_end(_, _)
run_end(frag, k) ==
    IF k < Len(frag) /\ frag[k + 1] = Space THEN run_end(frag, k + 1) ELSE k

\* regex.find_iter(&fragment) from char k (at byte offset byte) on: the
\* matches in order, as byte offsets into the fragment.
RECURSIVE find_iter(_, _, _, _)
find_iter(frag, pat, k, byte) ==
    IF k > Len(frag) THEN <<>>
    ELSE IF frag[k] = Space
         THEN LET e == IF pat = "\\s+" THEN run_end(frag, k) ELSE k
                  n == e - k + 1
              IN <<[start |-> byte, end |-> byte + n]>>
                     \o find_iter(frag, pat, e + 1, byte + n)
         ELSE find_iter(frag, pat, k + 1, byte + len_utf8(frag[k]))

\* end - 1 on usize: wraps below 0 (a build with overflow checks panics).
wrapping_dec(n) == IF n = 0 THEN UsizeMax ELSE n - 1

\* The inner for loop of split_on_matches over the matches ms of one range,
\* from match j on, followed by the trailing push.
RECURSIVE split_range(_, _, _, _, _, _, _)
split_range(txt, ms, j, start_byte, start, sel_end, acc) ==
    IF j > Len(ms)
    THEN IF start <= sel_end
         THEN [acc EXCEPT !.result = Append(@, Range(start, sel_end))]
         ELSE acc
    ELSE LET end == byte_to_char(txt, start_byte + ms[j].start)
         IN split_range(txt, ms, j + 1, start_byte,
                byte_to_char(txt, start_byte + ms[j].end), sel_end,
                [result |-> Append(acc.result, Range(start, wrapping_dec(end))),
                 underflow |-> acc.underflow \/ end = 0])

\* The outer for loop of split_on_matches from range k on.
RECURSIVE split_ranges(_, _, _, _, _)
split_ranges(txt, sel, pat, k, acc) ==
    IF k > Len(sel) THEN acc
    ELSE LET r == sel[k]
             ms == find_iter(Range_fragment(r, txt), pat, 1, 0)
         IN split_ranges(txt, sel, pat, k + 1,
                split_range(txt, ms, 1, char_to_byte(txt, Range_from(r)),
                    Range_from(r), Range_to(r), acc))

\* split_on_matches: the set of outcomes.  overflow_checks is the build's
\* setting.  Slicing the text past its end panics.
split_on_matches(txt, sel, pat, overflow_checks) ==
    IF \E k \in DOMAIN sel : Range_to(sel[k]) >= Len(txt)
    THEN {Panic}
    ELSE LET s == split_ranges(txt, sel, pat, 1,
                      [result |-> <<>>, underflow |-> FALSE])
         IN IF s.underflow /\ overflow_checks
            THEN {Panic}
            ELSE Selection_new(s.result, 0)

\* Char offsets of the text that lie inside a match found in some fragment.
matched_offsets(txt, sel, pat) ==
    UNION {LET r == sel[k]
               ms == find_iter(Range_fragment(r, txt), pat, 1, 0)
               sb == char_to_byte(txt, Range_from(r))
           IN UNION {byte_to_char(txt, sb + ms[j].start)
                         ..(byte_to_char(txt, sb + ms[j].end) - 1) :
                        j \in DOMAIN ms} :
              k \in DOMAIN sel}

----------------------------------------------------------------------------
(* Pure-function runs of Selection::new *)

InitNew ==
    /\ op = "input"
    /\ status = "ok"
    /\ ranges = <<>>
    /\ primary_index = 0
    /\ in_ranges \in RangeSeqs(MaxLen, MaxPos)
    /\ in_primary \in 0..(Len(in_ranges) - 1)
    /\ groups = <<>>
    /\ located = 0
    /\ text = <<>>
    /\ regex = ""
    /\ matched = {}
    /\ ret = FALSE

New ==
    /\ op = "input"
    /\ \E o \in Selection_new(in_ranges, in_primary) :
        /\ status' = o.status
        /\ ranges' = o.ranges
        /\ primary_index' = o.primary_index
        /\ groups' = o.groups
        /\ located' = o.located
    /\ op' = "new"
    /\ UNCHANGED <<in_ranges, in_primary, text, regex, matched, ret>>

NextNew == New

SpecNew == InitNew /\ [][NextNew]_vars

\* The same runs over longer inputs, for the index bookkeeping of the merge
\* pass: a missed decrement needs the primary at sorted position 4 or later.
InitPrimary ==
    /\ op = "input"
    /\ status = "ok"
    /\ ranges = <<>>
    /\ primary_index = 0
    /\ in_ranges \in RangeSeqs(DeepLen, DeepPos)
    /\ in_primary \in 0..(Len(in_ranges) - 1)
    /\ groups = <<>>
    /\ located = 0
    /\ text = <<>>
    /\ regex = ""
    /\ matched = {}
    /\ ret = FALSE

SpecPrimary == InitPrimary /\ [][NextNew]_vars

----------------------------------------------------------------------------
(* Claims about Selection::new, checked under SpecNew and SpecPrimary *)

Returned == op = "new" /\ status = "ok"

ClaimedPrimary == in_ranges[in_primary + 1]

PrimaryInBounds == primary_index < Len(ranges)

\* Offsets covered by the closed spans [from(), to()] of a range sequence.
Covered(rs) == UNION {Range_from(rs[k])..Range_to(rs[k]) : k \in DOMAIN rs}

\* What primary() returns: the range, or the index panic.
PrimaryOf(rs, p) == IF p < Len(rs) THEN <<"range", rs[p + 1]>> ELSE <<"panic">>

\* C2: no two ranges of a Selection returned by Selection::new satisfy
\* overlaps(), in either order (the claim as stated).
C2_NoTwoRangesOverlap ==
    Returned =>
        \A i, j \in DOMAIN ranges :
            i # j => ~Range_overlaps(ranges[i], ranges[j])

\* C3: the ranges of a Selection returned by Selection::new, which map,
\* transform and split_on_matches return through, are in ascending order of
\* from().
C3_AscendingByFrom ==
    Returned =>
        \A i, j \in DOMAIN ranges :
            i < j => Range_from(ranges[i]) <= Range_from(ranges[j])

\* C3 witness: three ranges given in descending order of from(), all kept.
C3_Witness ==
    /\ Returned
    /\ Len(in_ranges) = 3
    /\ Len(ranges) = 3
    /\ Range_from(in_ranges[1]) > Range_from(in_ranges[2])
    /\ Range_from(in_ranges[2]) > Range_from(in_ranges[3])

\* C4: if the claimed primary survives normalization unmerged (its output
\* range is made of its sorted position alone), primary() is exactly that
\* range (the claim as stated).
C4_PrimaryPreserved ==
    (Returned /\ \E k \in DOMAIN groups : groups[k] = {located}) =>
        /\ PrimaryInBounds
        /\ ranges[primary_index + 1] = ClaimedPrimary

\* C5: Selection::new on the returned ranges and the returned primary index
\* can return the same ranges and the same primary index (the claim as
\* stated, in its weakest reading: some outcome of the sort reproduces it).
C5_Idempotent ==
    Returned =>
        \E o \in Selection_new(ranges, primary_index) :
            /\ o.status = "ok"
            /\ o.ranges = ranges
            /\ o.primary_index = primary_index

\* C7: for at least two input ranges, primary() of the result covers the
\* claimed primary (the claim as stated).
C7_PrimaryCoversClaimed ==
    (Returned /\ Len(in_ranges) >= 2) =>
        /\ PrimaryInBounds
        /\ Range_from(ranges[primary_index + 1]) <= Range_from(ClaimedPrimary)
        /\ Range_to(ClaimedPrimary) <= Range_to(ranges[primary_index + 1])

\* C9: the offsets covered by the closed spans of the output ranges are
\* exactly the offsets covered by the closed spans of the input ranges.
C9_CoveragePreserved ==
    Returned => Covered(ranges) = Covered(in_ranges)

\* C9 witness: a merge of two ranges that only touch at one offset, next to
\* a range that stayed apart.
C9_Witness ==
    /\ Returned
    /\ Len(in_ranges) = 3
    /\ Len(ranges) = 2
    /\ \E i, j \in DOMAIN in_ranges :
        /\ i # j
        /\ Range_to(in_ranges[i]) = Range_from(in_ranges[j])
        /\ Range_is_empty(in_ranges[j])
        /\ ~Range_is_empty(in_ranges[i])

\* in_ranges with the ranges at positions i and j swapped.
Swapped(i, j) ==
    [k \in DOMAIN in_ranges |->
        IF k = i THEN in_ranges[j] ELSE IF k = j THEN in_ranges[i]
        ELSE in_ranges[k]]

\* The input sequences one swap away from in_ranges, each with the primary
\* indices that designate a range equal to the claimed primary.  Every
\* permutation is a product of swaps and the inputs drawn are closed under
\* swaps, so a result that no swap changes, for every input, is a result
\* that no permutation changes.
Reorderings ==
    {qp \in {<<Swapped(ij[1], ij[2]), p>> :
                ij \in (DOMAIN in_ranges) \X (DOMAIN in_ranges),
                p \in 0..(Len(in_ranges) - 1)} :
        qp[1][qp[2] + 1] = ClaimedPrimary}

\* Every reordering returns the ranges and the primary() of the current
\* result, whatever the sort does with equal keys.
SameResultForEveryOrder ==
    \A qp \in Reorderings :
        \A o \in Selection_new(qp[1], qp[2]) :
            /\ o.status = "ok"
            /\ o.ranges = ranges
            /\ PrimaryOf(o.ranges, o.primary_index)
                   = PrimaryOf(ranges, primary_index)

\* Ranges of the input that share from() are equal in anchor and head.
TiesAreDuplicates ==
    \A i, j \in DOMAIN in_ranges :
        Range_from(in_ranges[i]) = Range_from(in_ranges[j])
            => in_ranges[i] = in_ranges[j]

\* C10 as stated: every permutation of the input, with a primary index
\* designating an equal range, returns the same ranges and the same primary().
C10_OrderIndependent ==
    Returned => SameResultForEveryOrder

\* C10 as amended: the same, for inputs whose ranges sharing from() are
\* equal in anchor and head.
C10_OrderIndependentUpToTies ==
    (Returned /\ TiesAreDuplicates) => SameResultForEveryOrder

\* C10 witness: an input given out of order, with a duplicate, that merges.
C10_Witness ==
    /\ Returned
    /\ TiesAreDuplicates
    /\ Len(in_ranges) = 3
    /\ Len(ranges) = 2
    /\ Range_from(in_ranges[1]) > Range_from(in_ranges[3])
    /\ in_ranges[1] = in_ranges[2]
    /\ in_primary = 1

----------------------------------------------------------------------------
(* Pure-function runs of Range::overlaps *)

InitOverlaps ==
    /\ op = "input"
    /\ status = "ok"
    /\ ranges = <<>>
    /\ primary_index = 0
    /\ in_ranges \in [1..2 -> Ranges(MaxPos)]
    /\ in_primary = 0
    /\ groups = <<>>
    /\ located = 0
    /\ text = <<>>
    /\ regex = ""
    /\ matched = {}
    /\ ret = FALSE

\* in_ranges[1].overlaps(&in_ranges[2])
Overlaps ==
    /\ op = "input"
    /\ op' = "overlaps"
    /\ ret' = Range_overlaps(in_ranges[1], in_ranges[2])
    /\ UNCHANGED <<status, ranges, primary_index, in_ranges, in_primary,
                   groups, located, text, regex, matched>>

NextOverlaps == Overlaps

SpecOverlaps == InitOverlaps /\ [][NextOverlaps]_vars

\* C8: for two non-empty ranges a and b, a.overlaps(b) is true only when
\* max(a.from(), b.from()) < min(a.to(), b.to()) (the claim as stated).
C8_NonEmptyOverlapInterleaves ==
    (/\ op = "overlaps"
     /\ ~Range_is_empty(in_ranges[1])
     /\ ~Range_is_empty(in_ranges[2])
     /\ ret)
        => Max(Range_from(in_ranges[1]), Range_from(in_ranges[2]))
               < Min(Range_to(in_ranges[1]), Range_to(in_ranges[2]))

----------------------------------------------------------------------------
(* Pure-function runs of split_on_matches *)

\* The Selections Selection::new returns for inputs of at most maxlen ranges.
NormalizedSelections(maxlen) ==
    {<<o.ranges, o.primary_index>> :
        o \in {x \in UNION {Selection_new(rs, p) :
                               rs \in RangeSeqs(maxlen, MaxPos),
                               p \in 0..(maxlen - 1)} :
                   x.status = "ok"}}

InitSplit ==
    /\ op = "input"
    /\ status = "ok"
    /\ ranges = <<>>
    /\ primary_index = 0
    /\ \E sel \in NormalizedSelections(MaxLen) :
        /\ in_ranges = sel[1]
        /\ in_primary = sel[2]
    /\ groups = <<>>
    /\ located = 0
    /\ text \in Texts
    /\ \A k \in DOMAIN in_ranges : Range_to(in_ranges[k]) < Len(text)
    /\ regex \in Patterns
    /\ matched = {}
    /\ ret = FALSE

\* split_on_matches(&text, &Selection {in_ranges, in_primary}, &regex)
SplitRun ==
    /\ op = "input"
    /\ op' = "split_on_matches"
    /\ \E overflow_checks \in BOOLEAN :
        \E o \in split_on_matches(text, in_ranges, regex, overflow_checks) :
            /\ status' = o.status
            /\ ranges' = o.ranges
            /\ primary_index' = o.primary_index
            /\ groups' = o.groups
            /\ located' = o.located
    /\ matched' = matched_offsets(text, in_ranges, regex)
    /\ UNCHANGED <<in_ranges, in_primary, text, regex, ret>>

NextSplit == SplitRun

SpecSplit == InitSplit /\ [][NextSplit]_vars

\* C6: no char offset inside a match lies in the closed span
\* [from(), to()] of a range of the returned Selection (the claim as stated).
C6_MatchesExcluded ==
    (op = "split_on_matches" /\ status = "ok") =>
        \A m \in matched : \A k \in DOMAIN ranges :
            ~(Range_from(ranges[k]) <= m /\ m <= Range_to(ranges[k]))

----------------------------------------------------------------------------
(* Change sets handed to Selection::map *)

\* A change set: no change, chars inserted at an offset, chars deleted
\* from an offset on.
ChangeSets ==
    [kind : {"empty"}, at : {0}, len : {0}]
        \cup [kind : {"insert", "delete"}, at : 0..MaxPos, len : 1..2]

ChangeSet_is_empty(changes) == changes.kind = "empty"

\* changes.map_pos(pos, Assoc::After)
map_pos_after(changes, pos) ==
    CASE changes.kind = "insert" ->
            IF pos >= changes.at THEN pos + changes.len ELSE pos
      [] changes.kind = "delete" ->
            IF pos <= changes.at THEN pos
            ELSE IF pos >= changes.at + changes.len THEN pos - changes.len
            ELSE changes.at
      [] OTHER -> pos

\* Range::map
Range_map(r, changes) ==
    Range(map_pos_after(changes, r.anchor), map_pos_after(changes, r.head))

----------------------------------------------------------------------------
(* The life of a Selection: one constructor, then methods *)

Init ==
    /\ op = "start"
    /\ status = "ok"
    /\ ranges = <<>>
    /\ primary_index = 0
    /\ in_ranges = <<>>
    /\ in_primary = 0
    /\ groups = <<>>
    /\ located = 0
    /\ text = <<>>
    /\ regex = ""
    /\ matched = {}
    /\ ret = FALSE

Unrecorded == UNCHANGED <<in_ranges, in_primary, groups, located, text, regex,
                          matched, ret>>

\* The Selection becomes an outcome o of a call.
Becomes(o) ==
    /\ status' = o.status
    /\ ranges' = o.ranges
    /\ primary_index' = o.primary_index

\* Selection::single(anchor, head)
Single ==
    /\ op = "start"
    /\ \E anchor, head \in 0..MaxPos :
        /\ ranges' = <<Range(anchor, head)>>
        /\ primary_index' = 0
    /\ op' = "single"
    /\ UNCHANGED status
    /\ Unrecorded

\* Selection::point(pos)
Point ==
    /\ op = "start"
    /\ \E pos \in 0..MaxPos :
        /\ ranges' = <<Range(pos, pos)>>
        /\ primary_index' = 0
    /\ op' = "point"
    /\ UNCHANGED status
    /\ Unrecorded

\* Selection::new(rs, p), with at least one range and p in bounds
Construct ==
    /\ op = "start"
    /\ \E rs \in RangeSeqs(MaxLen, MaxPos) :
        \E p \in 0..(Len(rs) - 1) :
            \E o \in Selection_new(rs, p) : Becomes(o)
    /\ op' = "new"
    /\ Unrecorded

\* self.into_single()
IntoSingle ==
    /\ op # "start"
    /\ status = "ok"
    /\ IF Len(ranges) = 1
       THEN UNCHANGED <<status, ranges, primary_index>>
       ELSE IF primary_index >= Len(ranges)
            THEN Becomes(Panic)
            ELSE /\ ranges' = <<ranges[primary_index + 1]>>
                 /\ primary_index' = 0
                 /\ UNCHANGED status
    /\ op' = "into_single"
    /\ Unrecorded

\* self.map(&changes), for changes that keep the offsets within MaxPos
Map ==
    /\ op # "start"
    /\ status = "ok"
    /\ \E changes \in ChangeSets :
        IF ChangeSet_is_empty(changes)
        THEN UNCHANGED <<status, ranges, primary_index>>
        ELSE /\ \A k \in DOMAIN ranges :
                    Range_to(Range_map(ranges[k], changes)) <= MaxPos
             /\ \E o \in Selection_new(
                         [k \in DOMAIN ranges |-> Range_map(ranges[k], changes)],
                         primary_index) : Becomes(o)
    /\ op' = "map"
    /\ Unrecorded

\* self.transform(f), f any function from Range to Range
Transform ==
    /\ op # "start"
    /\ status = "ok"
    /\ \E f \in [{ranges[k] : k \in DOMAIN ranges} -> Ranges(MaxPos)] :
        \E o \in Selection_new([k \in DOMAIN ranges |-> f[ranges[k]]],
                               primary_index) : Becomes(o)
    /\ op' = "transform"
    /\ Unrecorded

\* split_on_matches(&txt, self, &pat)
Split ==
    /\ op # "start"
    /\ status = "ok"
    /\ \E txt \in Texts, pat \in Patterns, overflow_checks \in BOOLEAN :
        \E o \in split_on_matches(txt, ranges, pat, overflow_checks) :
            Becomes(o)
    /\ op' = "split_on_matches"
    /\ Unrecorded

Next ==
    \/ Single
    \/ Point
    \/ Construct
    \/ IntoSingle
    \/ Map
    \/ Transform
    \/ Split

Spec == Init /\ [][Next]_vars

\* C1: after any sequence of single, point, new, map, transform and
\* into_single the primary index is in bounds (the claim as stated).
C1_PrimaryIndexInBounds ==
    (op \in {"single", "point", "new", "map", "transform", "into_single"}
        /\ status = "ok") => PrimaryInBounds

====
